---- MODULE Spec2Model ----
(***************************************************************************)
(* MomentumLongV5 (src/legacy/momentum_long_v5.py): the per-bar decision   *)
(* function `run`, the cooldown check and the fill callbacks, as a state   *)
(* machine over the per-symbol dictionaries the strategy reads and writes. *)
(*                                                                         *)
(* Encoding.  Python's None, a missing dictionary key and a NaN indicator  *)
(* value are the empty tuple <<>>; a present value v is <<v>>.  Prices are *)
(* integers; target_prices and stop_prices hold hundredths of the price    *)
(* unit, so close * 0.96 and down_cross * 1.12 are exact.  Times are       *)
(* seconds since config.market_open.  Oscillator (MACD) values are in      *)
(* units of 0.0001.  The bounded-ratio oscillator (RSI) is a whole number. *)
(*                                                                         *)
(* Specifications.  Spec: one symbol, one call of run at a time, any       *)
(* arguments, with the fill callbacks.  SpecClock: Spec with times that    *)
(* never go back.  SpecPair: two symbols, one evaluator each.  SpecSame:   *)
(* one symbol, two calls in flight.  SpecCool, SpecQty, SpecRound,         *)
(* SpecFill: should_cool_down, the sell order, the rounded comparisons and *)
(* the callbacks, each taken on its own.                                   *)
(***************************************************************************)
EXTENDS Integers, Sequences, FiniteSets, TLC

(* ---------------------------------------------------------------- bounds *)
MaxPosition == 2
MaxMinute == 4
MaxQtyPosition == 6

(* ----------------------------------------------------- program constants *)
MinVolume == 500
RsiLimitBuy == 75
RsiLimitSell == 79
RsiLimitRush == 85
RushMinutes == 30
CoolDownMinutes == 5
StopPct == 96
TargetPct == 112
WhipsawPct == 99
Retries == 3
RiskNum == 1
RiskDen == 100

(* ------------------------------------------------------------ input sets *)
Symbols == {"A"}
Tasks == {"t1"}
\* bar closes / vwap
Prices == {45, 50, 58}
\* prices the broker reports for a fill
FillPrices == {49, 50}
\* 25:00, 30:30 and 31:00 after the open
Nows == {1500, 1830, 1860}
Rsis == {<<>>, <<74>>, <<75>>, <<79>>, <<85>>}
PortfolioValues == {0, 150, 100000}
\* the instants and store entries of the cooldown check taken alone
CoolTimes == {60 * m + sec : m \in 0..MaxMinute, sec \in {0, 30}}

(* --------------------------------------------------------------- helpers *)
None == <<>>
NaN == <<>>
Some(v) == <<v>>

\* Python truthiness of an optional number: None and 0 are false
Truthy(o) == o # None /\ o[1] # 0

\* comparisons of floats, false as soon as one side is NaN
Lt(a, b) == a # NaN /\ b # NaN /\ a[1] < b[1]
Le(a, b) == a # NaN /\ b # NaN /\ a[1] <= b[1]
Ge(a, b) == Le(b, a)
Gt(a, b) == Lt(b, a)

Max(a, b) == IF a >= b THEN a ELSE b

\* now.replace(second=0, microsecond=0)
TruncMinute(now) == now - (now % 60)

\* (now - config.market_open).seconds // 60 < 30
MorningRush(now) == (now \div 60) < RushMinutes

VARIABLES
  down_cross,          \* MomentumLongV5.down_cross: symbol -> anchor price
  whipsawed,           \* MomentumLongV5.whipsawed: symbol -> flag
  cool_down,           \* trading_data.cool_down: symbol -> time
  target_prices,       \* trading_data.target_prices (hundredths)
  stop_prices,         \* trading_data.stop_prices (hundredths)
  latest_cost_basis,   \* trading_data.latest_cost_basis
  latest_scalp_basis,  \* trading_data.latest_scalp_basis
  task                 \* the in-flight calls of run: arguments, position, result

vars == <<down_cross, whipsawed, cool_down, target_prices, stop_prices,
          latest_cost_basis, latest_scalp_basis, task>>

NoIntent == [side |-> "none", qty |-> 0, type |-> "none", limit |-> None]

IdleTask ==
  [pc |-> "idle", symbol |-> "none", engine |-> "none", path |-> "none",
   now |-> 0, position |-> 0, close |-> 0, vwap |-> 0,
   checked |-> FALSE, short |-> FALSE, macd |-> <<>>, rsi |-> NaN, rules |-> {},
   portfolio_value |-> None, trading_api |-> FALSE, calls |-> 0, retry |-> 0, attempts |-> 0, yields |-> 0,
   buy_time |-> FALSE, open_order |-> FALSE, volume |-> 0,
   round_factor |-> 0, macd_below_signal |-> FALSE, macd_falling |-> FALSE,
   raised |-> FALSE, act |-> FALSE, intent |-> NoIntent]

Init ==
  /\ down_cross = [s \in Symbols |-> None]
  /\ whipsawed = [s \in Symbols |-> FALSE]
  /\ cool_down = [s \in Symbols |-> None]
  /\ target_prices = [s \in Symbols |-> None]
  /\ stop_prices = [s \in Symbols |-> None]
  /\ latest_cost_basis = [s \in Symbols |-> None]
  /\ latest_scalp_basis = [s \in Symbols |-> None]
  /\ task = [t \in Tasks |-> IdleTask]

(* ------------------------------------------------------- fill callbacks *)
\* buy_callback: latest_scalp_basis[symbol] = latest_cost_basis[symbol] = price
buy_callback(s, price) ==
  /\ latest_scalp_basis' = [latest_scalp_basis EXCEPT ![s] = Some(price)]
  /\ latest_cost_basis' = [latest_cost_basis EXCEPT ![s] = Some(price)]
  /\ UNCHANGED <<down_cross, whipsawed, cool_down, target_prices, stop_prices>>

\* as sell_callback, with the body of buy_callback
sell_callback_Both(s, price) ==
  /\ latest_scalp_basis' = [latest_scalp_basis EXCEPT ![s] = Some(price)]
  /\ latest_cost_basis' = [latest_cost_basis EXCEPT ![s] = Some(price)]
  /\ UNCHANGED <<down_cross, whipsawed, cool_down, target_prices, stop_prices>>

\* sell_callback: latest_scalp_basis[symbol] = price
sell_callback(s, price) ==
  /\ latest_scalp_basis' = [latest_scalp_basis EXCEPT ![s] = Some(price)]
  /\ UNCHANGED <<down_cross, whipsawed, cool_down, target_prices, stop_prices,
                 latest_cost_basis>>

\* the broker reports a fill; a finished call of run hands its result to its
\* caller at once, so no fill comes between the two
NoResultPending == \A t \in DOMAIN task : task[t].pc # "done"

BuyFill ==
  /\ NoResultPending
  /\ \E s \in DOMAIN down_cross, p \in FillPrices : buy_callback(s, p)
  /\ UNCHANGED task

SellFill ==
  /\ NoResultPending
  /\ \E s \in DOMAIN down_cross, p \in FillPrices : sell_callback(s, p)
  /\ UNCHANGED task

(* ------------------------------------------------------ should_cool_down *)
\* as CoolDownActive, with cool_down[symbol] > now.replace(second=0, ...)
CoolDownActive_Strict(cd, now) == cd # None /\ cd[1] > TruncMinute(now)

\* the condition of the if: the entry is there, is not None (a datetime is
\* never false) and is not before the minute of `now`
CoolDownActive(cd, now) == cd # None /\ cd[1] >= TruncMinute(now)

\* as should_cool_down, but the expired entry is left in the store
should_cool_down_NoClear(cd, now) ==
  [ret |-> CoolDownActive(cd, now), cd |-> cd]

\* should_cool_down(symbol, now): the value returned and the entry left in
\* cool_down[symbol]
should_cool_down(cd, now) ==
  IF CoolDownActive(cd, now)
  THEN [ret |-> TRUE, cd |-> cd]
  ELSE [ret |-> FALSE, cd |-> None]

(* ------------------------------------------------- results of one call *)
\* return False, {}
Finish(rec, path) == [rec EXCEPT !.pc = "done", !.path = path]

\* return True, {...}
FinishAct(rec, path, intent) ==
  [rec EXCEPT !.pc = "done", !.path = path, !.act = TRUE, !.intent = intent]

\* an exception leaves run
FinishRaise(rec, path) == [rec EXCEPT !.pc = "done", !.path = path, !.raised = TRUE]

(* ------------------------------------------------------ entry: indicators *)
\* the last three MACD values and the last two signal values of a series
Window(m1, m2, m3, s1, s2) == [m1 |-> m1, m2 |-> m2, m3 |-> m3, s1 |-> s1, s2 |-> s2]

\* MACD(close_5min, 13, 21) on the resampled closes: the windows considered
CoarseWindows ==
  { Window(NaN, NaN, NaN, NaN, NaN),                  \* history too short
    Window(<<-100>>, <<0>>, NaN, NaN, NaN),           \* crossing, signal not yet valid
    Window(<<-100>>, <<0>>, <<100>>, <<0>>, <<100>>), \* downward zero-crossing
    Window(<<-100>>, <<100>>, <<0>>, <<-200>>, <<-300>>),
    Window(<<0>>, <<-100>>, <<-200>>, <<-100>>, <<-200>>), \* back to zero
    Window(<<100>>, <<0>>, <<-100>>, <<0>>, <<-100>>),     \* positive again
    Window(<<-100>>, <<-200>>, <<-300>>, <<-200>>, <<-300>>), \* rising trend
    Window(<<-100>>, <<-100>>, <<-300>>, <<-200>>, <<-300>>), \* flat, then
    Window(<<-100>>, <<-200>>, <<-200>>, <<-200>>, <<-300>>), \* one test fails
    Window(<<-100>>, <<-200>>, <<-300>>, <<-100>>, <<-300>>),
    Window(<<-100>>, <<-200>>, <<-300>>, <<-300>>, <<-300>>),
    Window(<<-100>>, <<-200>>, <<-300>>, <<-150>>, <<-200>>),
    Window(<<-300>>, <<-200>>, <<-100>>, <<-200>>, <<-100>>), \* falling
    Window(<<300>>, <<200>>, <<100>>, <<200>>, <<100>>) }     \* rising above zero

\* as DownCrossing, with 0 < macd[-2]
DownCrossing_Strict(w) == Lt(w.m1, <<0>>) /\ Lt(<<0>>, w.m2)

\* macd[-1] < 0 <= macd[-2]
DownCrossing(w) == Lt(w.m1, <<0>>) /\ Le(<<0>>, w.m2)

\* as BackAboveZero, with macd[-1] > 0
BackAboveZero_Strict(w) == Gt(w.m1, <<0>>)

\* macd[-1] >= 0
BackAboveZero(w) == Ge(w.m1, <<0>>)

\* as TrendUp, with macd[-1] >= macd[-2] >= macd[-3]
TrendUp_NonStrict(w) ==
  /\ Ge(w.m1, w.m2) /\ Ge(w.m2, w.m3)
  /\ Gt(w.m1, w.s1) /\ Gt(w.s1, w.s2)
  /\ Gt(w.m2, w.s2)

\* macd[-1] > macd[-2] > macd[-3] and macd[-1] > macd_signal[-1] >
\* macd_signal[-2] and macd[-2] > macd_signal[-2]
TrendUp(w) ==
  /\ Gt(w.m1, w.m2) /\ Gt(w.m2, w.m3)
  /\ Gt(w.m1, w.s1) /\ Gt(w.s1, w.s2)
  /\ Gt(w.m2, w.s2)

\* as ToBuy, without the test data.close < self.down_cross[symbol]
ToBuy_NoCloseTest(dc, w, close) == Truthy(dc) /\ TrendUp(w)

\* to_buy: anchor set, trend up, and data.close < self.down_cross[symbol]
ToBuy(dc, w, close) == Truthy(dc) /\ TrendUp(w) /\ close < dc[1]

\* rsi[-1] < rsi_limit is false: the else branch (a NaN takes it too)
RsiOverbought(rsi) == ~Lt(rsi, <<RsiLimitBuy>>)

\* as CoolDownUntil, without the truncation to the minute
CoolDownUntil_NoTrunc(now) == now + CoolDownMinutes * 60

\* now.replace(second=0, microsecond=0) + timedelta(minutes=5)
CoolDownUntil(now) == TruncMinute(now) + CoolDownMinutes * 60

\* stop_price = data.close * 0.96, in hundredths
StopPrice(close) == close * StopPct

\* target_price = self.down_cross[symbol] * 1.12, in hundredths
TargetPrice(anchor) == anchor * TargetPct

(* ---------------------------------------------------------- entry: sizing *)
\* Python's // on floats: the floor of the quotient
FloorDiv(n, d) == IF d > 0 THEN n \div d ELSE (0 - n) \div (0 - d)

\* as SharesToBuy, without `if not shares_to_buy: shares_to_buy = 1`
SharesToBuy_NoMinimum(pv, close, sp, position) ==
  FloorDiv(pv * RiskNum * 100, RiskDen * (close * 100 - sp)) - position

\* portfolio_value * config.risk // (data.close - stop_prices[symbol]),
\* then `if not shares_to_buy: shares_to_buy = 1`, then `-= position`
SharesToBuy(pv, close, sp, position) ==
  LET q == FloorDiv(pv * RiskNum * 100, RiskDen * (close * 100 - sp))
  IN  (IF q = 0 THEN 1 ELSE q) - position

\* the order intent of a buy
BuyIntent(rec, qty) ==
  IF ~MorningRush(rec.now)
  THEN [side |-> "buy", qty |-> qty, type |-> "limit",
        limit |-> Some(Max(rec.close, rec.vwap))]
  ELSE [side |-> "buy", qty |-> qty, type |-> "market", limit |-> None]

\* as SizeOrder, without self.whipsawed[symbol] = False
SizeOrder_KeepFlag(rec, pv, sp) ==
  IF rec.close * 100 - sp[1] = 0
  THEN [rec |-> FinishRaise(rec, "zero_division"), clear |-> FALSE]
  ELSE LET n == SharesToBuy(pv, rec.close, sp[1], rec.position)
       IN  IF n > 0
           THEN [rec |-> FinishAct(rec, "buy", BuyIntent(rec, n)), clear |-> FALSE]
           ELSE [rec |-> Finish(rec, "no_shares"), clear |-> FALSE]

\* lines 197-235, with portfolio_value known and sp = stop_prices[symbol] as
\* read there: the record of the finished call and whether whipsawed is reset
SizeOrder(rec, pv, sp) ==
  IF rec.close * 100 - sp[1] = 0
  THEN [rec |-> FinishRaise(rec, "zero_division"), clear |-> FALSE]
  ELSE LET n == SharesToBuy(pv, rec.close, sp[1], rec.position)
       IN  IF n > 0
           THEN [rec |-> FinishAct(rec, "buy", BuyIntent(rec, n)), clear |-> TRUE]
           ELSE [rec |-> Finish(rec, "no_shares"), clear |-> FALSE]

(* -------------------------------------------- entry: portfolio value fetch *)
\* lines 187-191 after a successful get_account(), then the sizing
AfterFetch(rec, pv, sp) ==
  IF pv = 0
  THEN [rec |-> Finish(rec, "no_portfolio_value"), clear |-> FALSE]
  ELSE SizeOrder([rec EXCEPT !.portfolio_value = Some(pv)], pv, sp)

\* one pass of the body of `while retry > 0` (lines 175-185): get_account()
\* answers, fails with ConnectionError (the call is then suspended in
\* asyncio.sleep(0), before retry -= 1), or fails with another exception
Attempt(rec, sp) ==
  LET r == [rec EXCEPT !.attempts = @ + 1]
  IN  { AfterFetch(r, pv, sp) : pv \in PortfolioValues }
        \cup { [rec |-> [r EXCEPT !.pc = "yield", !.yields = @ + 1], clear |-> FALSE],
               [rec |-> FinishRaise(r, "fetch_error"), clear |-> FALSE] }

(* ------------------------------------------------------- exit: indicators *)
\* macd[-1], macd[-2] and macd_signal[-1] of the 1-minute series
FineWindow(m1, m2, s1) == [m1 |-> m1, m2 |-> m2, s1 |-> s1]

\* MACD(serie, 13, 21) on the 1-minute closes: the windows considered
FineWindows ==
  { FineWindow(NaN, NaN, NaN),                      \* history too short
    FineWindow(<<1004>>, <<1012>>, <<1012>>),
    FineWindow(<<8>>, <<1004>>, <<1004>>),
    FineWindow(<<-1004>>, <<-1012>>, <<-1012>>),
    FineWindow(<<-1012>>, <<-1004>>, <<-1004>>) }

\* 2 if macd_val >= 0.1 or macd_signal_val >= 0.1 else 3
RoundFactor(w) == IF Ge(w.m1, <<1000>>) \/ Ge(w.s1, <<1000>>) THEN 2 ELSE 3

\* round(x, factor) of a value in units of 0.0001: to the nearest multiple of
\* 0.01 (factor 2) or 0.001 (factor 3), a tie going to the even neighbour;
\* a NaN stays a NaN
PyRound(x, factor) ==
  IF x = NaN THEN NaN
  ELSE LET step == IF factor = 2 THEN 100 ELSE 10
           r == x[1] % step
           lo == x[1] - r
       IN  IF 2 * r < step THEN <<lo>>
           ELSE IF 2 * r > step THEN <<lo + step>>
           ELSE IF (lo \div step) % 2 = 0 THEN <<lo>> ELSE <<lo + step>>

\* macd_below_signal
MacdBelowSignal(w) ==
  Lt(PyRound(w.m1, RoundFactor(w)), PyRound(w.s1, RoundFactor(w)))

\* round(macd[-1], round_factor) < round(macd[-2], round_factor)
MacdFalling(w) ==
  Lt(PyRound(w.m1, RoundFactor(w)), PyRound(w.m2, RoundFactor(w)))

\* movement > pct / 100, movement = (data.close - scalp) / scalp
MovementOver(close, scalp, pct) == 100 * (close - scalp) > pct * scalp

\* data.vwap > scalp_threshold, scalp_threshold = (target + scalp) / 2
VwapOverThreshold(vwap, tp, scalp) == 2 * 100 * vwap > tp + 100 * scalp

\* data.close < latest_cost_basis[symbol] * 0.99
BelowCost(close, cost) == 100 * close < WhipsawPct * cost

(* ------------------------------------------------------------ exit: rules *)
\* the bar and indicator values one exit evaluation looks at
ExitView(close, vwap, maxClose, w, rsi, now, wh, cost, scalp, tp, sp) ==
  [close |-> close, vwap |-> vwap, maxClose |-> maxClose, w |-> w, rsi |-> rsi,
   now |-> now, wh |-> wh, cost |-> cost, scalp |-> scalp, tp |-> tp, sp |-> sp]

\* data.close <= stop_prices[symbol]
StopHit(v) == 100 * v.close <= v.sp

\* data.close >= target_prices[symbol] and macd[-1] <= 0
TargetHit(v) == 100 * v.close >= v.tp /\ Le(v.w.m1, <<0>>)

\* as RsiLimit, without the higher limit of the morning rush
RsiLimit_NoRush(now) == RsiLimitSell

\* rsi_limit = 79 if not morning_rush else 85
RsiLimit(now) == IF ~MorningRush(now) THEN RsiLimitSell ELSE RsiLimitRush

\* rsi[-1] >= rsi_limit
RsiMax(v) == Ge(v.rsi, <<RsiLimit(v.now)>>)

\* bail_out
BailOut(v) ==
  /\ \/ v.scalp > v.cost
     \/ MovementOver(v.maxClose, v.scalp, 2) /\ v.maxClose > v.close
  /\ MacdBelowSignal(v.w)
  /\ MacdFalling(v.w)

\* scalp
ScaleOut(v) ==
  MovementOver(v.close, v.scalp, 4) \/ VwapOverThreshold(v.vwap, v.tp, v.scalp)

\* bail_on_whipsawed
BailOnWhipsawed(v) ==
  /\ v.wh
  /\ MovementOver(v.close, v.scalp, 1)
  /\ MacdBelowSignal(v.w)
  /\ MacdFalling(v.w)

\* the rules in the order of the if / elif chain of lines 314-337
RuleOrder == <<"stopped", "target", "rsi_max", "bail", "scale_out", "bail_whipsawed">>

RuleHolds(name, v) ==
  CASE name = "stopped" -> StopHit(v)
    [] name = "target" -> TargetHit(v)
    [] name = "rsi_max" -> RsiMax(v)
    [] name = "bail" -> BailOut(v)
    [] name = "scale_out" -> ScaleOut(v)
    [] name = "bail_whipsawed" -> BailOnWhipsawed(v)

\* as SelectedRule, with the scale-out test moved to the head of the chain
SelectedRule_ScaleOutFirst(v) ==
  IF ScaleOut(v) THEN "scale_out"
  ELSE IF StopHit(v) THEN "stopped"
  ELSE IF TargetHit(v) THEN "target"
  ELSE IF RsiMax(v) THEN "rsi_max"
  ELSE IF BailOut(v) THEN "bail"
  ELSE IF BailOnWhipsawed(v) THEN "bail_whipsawed"
  ELSE "none"

\* the branch of the chain that is taken, "none" when to_sell stays False
SelectedRule(v) ==
  IF StopHit(v) THEN "stopped"
  ELSE IF TargetHit(v) THEN "target"
  ELSE IF RsiMax(v) THEN "rsi_max"
  ELSE IF BailOut(v) THEN "bail"
  ELSE IF ScaleOut(v) THEN "scale_out"
  ELSE IF BailOnWhipsawed(v) THEN "bail_whipsawed"
  ELSE "none"

\* as ScaleOutQty, without the minimum of one share
ScaleOutQty_NoMinimum(position) == position \div 2

\* qty = int(position / 2) if position > 1 else 1
ScaleOutQty(position) == IF position > 1 THEN position \div 2 ELSE 1

\* lines 355-394: the order of the selected rule
SellIntent(rule, position, close) ==
  IF rule = "scale_out"
  THEN [side |-> "sell", qty |-> ScaleOutQty(position), type |-> "limit",
        limit |-> Some(close)]
  ELSE IF rule = "bail_whipsawed"
  THEN [side |-> "sell", qty |-> position, type |-> "limit", limit |-> Some(close)]
  ELSE [side |-> "sell", qty |-> position, type |-> "market", limit |-> None]

(* ------------------------------------------------------------------ run *)
\* as Apply, with whipsawed one flag of the class and not an entry per symbol
Apply_SharedFlag(t, s, dc, wh, cd, tp, sp, rec) ==
  /\ down_cross' = [down_cross EXCEPT ![s] = dc]
  /\ whipsawed' = [x \in DOMAIN whipsawed |-> wh]
  /\ cool_down' = [cool_down EXCEPT ![s] = cd]
  /\ target_prices' = [target_prices EXCEPT ![s] = tp]
  /\ stop_prices' = [stop_prices EXCEPT ![s] = sp]
  /\ task' = [task EXCEPT ![t] = rec]
  /\ UNCHANGED <<latest_cost_basis, latest_scalp_basis>>

\* the writes of one step of run for symbol s, as the values left in the
\* dictionaries
Apply(t, s, dc, wh, cd, tp, sp, rec) ==
  /\ down_cross' = [down_cross EXCEPT ![s] = dc]
  /\ whipsawed' = [whipsawed EXCEPT ![s] = wh]
  /\ cool_down' = [cool_down EXCEPT ![s] = cd]
  /\ target_prices' = [target_prices EXCEPT ![s] = tp]
  /\ stop_prices' = [stop_prices EXCEPT ![s] = sp]
  /\ task' = [task EXCEPT ![t] = rec]
  /\ UNCHANGED <<latest_cost_basis, latest_scalp_basis>>

\* as ConfigError, but ending like a failed fetch
ConfigError_Silent(rec) ==
  [rec |-> Finish(rec, "no_portfolio_value"), clear |-> FALSE]

\* lines 192-195: raise Exception("both portfolio_value and trading_api
\* can't be None")
ConfigError(rec) == [rec |-> FinishRaise(rec, "config_error"), clear |-> FALSE]

\* lines 165-235: stop and target are stored, then the portfolio value is
\* found and the order sized
PriceAndSize(t, s, rec, cd) ==
  LET sp == Some(StopPrice(rec.close))
      tp == Some(TargetPrice(down_cross[s][1]))
  IN  \E pvArg \in {None} \cup {Some(v) : v \in PortfolioValues}, api \in BOOLEAN,
         vwap \in Prices :
        LET r0 == [rec EXCEPT !.portfolio_value = pvArg, !.trading_api = api,
                              !.vwap = vwap]
            outs == IF pvArg # None THEN {SizeOrder(r0, pvArg[1], sp)}
                    ELSE IF api THEN Attempt([r0 EXCEPT !.retry = Retries], sp)
                    ELSE {ConfigError(r0)}
        IN  \E o \in outs :
              Apply(t, s, down_cross[s],
                    IF o.clear THEN FALSE ELSE whipsawed[s], cd, tp, sp, o.rec)

\* lines 89-235: the body of the entry branch; cd is cool_down[symbol] as
\* should_cool_down left it
EntryEngine(t, s, rec0, cd) ==
  \E close \in Prices, w \in CoarseWindows :
    LET rec == [rec0 EXCEPT !.engine = "entry", !.close = close, !.macd = w,
                            !.short = (w = Window(NaN, NaN, NaN, NaN, NaN))]
        dc == down_cross[s]
        Same(r) == Apply(t, s, dc, whipsawed[s], cd, target_prices[s],
                         stop_prices[s], r)
    IN  IF DownCrossing(w) /\ ~Truthy(dc)
        THEN Apply(t, s, Some(close), whipsawed[s], cd, target_prices[s],
                   stop_prices[s], Finish(rec, "anchor_set"))
        ELSE IF Truthy(dc) /\ BackAboveZero(w)
        THEN Apply(t, s, None, whipsawed[s], cd, target_prices[s],
                   stop_prices[s], Finish(rec, "anchor_cleared"))
        ELSE IF ~ToBuy(dc, w, close)
        THEN Same(Finish(rec, "no_signal"))
        ELSE \E rsi \in Rsis :
               LET r1 == [rec EXCEPT !.rsi = rsi]
               IN  IF RsiOverbought(rsi)
                   THEN Apply(t, s, dc, whipsawed[s], Some(CoolDownUntil(rec.now)),
                              target_prices[s], stop_prices[s],
                              Finish(r1, "overbought"))
                   ELSE PriceAndSize(t, s, r1, cd)

\* lines 243-394: the body of the exit branch
ExitEngine(t, s, rec0) ==
  \E close \in Prices, vwap \in Prices, w \in FineWindows, rsi \in Rsis :
    \E maxClose \in {p \in Prices : p >= close} :
      \E v \in {ExitView(close, vwap, maxClose, w, rsi, rec0.now,
                         whipsawed[s] \/ BelowCost(close, latest_cost_basis[s][1]),
                         latest_cost_basis[s][1], latest_scalp_basis[s][1],
                         target_prices[s][1], stop_prices[s][1])} :
        \E rule \in {SelectedRule(v)} :
          LET rec == [rec0 EXCEPT !.engine = "exit", !.close = close, !.rsi = rsi,
                         !.short = (w = FineWindow(NaN, NaN, NaN) /\ rsi = NaN),
                         !.rules = {n \in DOMAIN RuleOrder : RuleHolds(RuleOrder[n], v)}]
              cd == IF rule = "rsi_max" THEN Some(CoolDownUntil(rec0.now))
                    ELSE cool_down[s]
          IN  Apply(t, s, down_cross[s], v.wh, cd, target_prices[s], stop_prices[s],
                    IF rule = "none" THEN Finish(rec, "no_sell")
                    ELSE FinishAct(rec, rule, SellIntent(rule, rec0.position, close)))

\* as ExitOrSkip, with the cooldown check made whatever the window, the
\* position and the pending order are
ExitOrSkip_Clearing(t, s, rec0, cd, sellTime, owner, pending) ==
  IF /\ sellTime /\ rec0.position > 0 /\ latest_cost_basis[s] # None
     /\ owner /\ ~pending
  THEN ExitEngine(t, s, rec0)
  ELSE Apply(t, s, down_cross[s], whipsawed[s], should_cool_down(cd, rec0.now).cd,
             target_prices[s], stop_prices[s], Finish(rec0, "skip"))

\* lines 236-242 and 396: the elif of run, reached when the entry condition
\* is false; cd is cool_down[symbol] as the entry condition left it
ExitOrSkip(t, s, rec0, cd, sellTime, owner, pending) ==
  IF /\ sellTime /\ rec0.position > 0 /\ latest_cost_basis[s] # None
     /\ owner /\ ~pending
  THEN ExitEngine(t, s, rec0)
  ELSE Apply(t, s, down_cross[s], whipsawed[s], cd, target_prices[s],
             stop_prices[s], Finish(rec0, "skip"))

\* one call of run(symbol, position, minute_history, now, portfolio_value,
\* trading_api), up to its return or its first suspension.  The conjuncts of
\* the entry condition are evaluated left to right: should_cool_down is
\* called only when the three before it hold, data.volume is read only when
\* it returns False.  last_used_strategy names this strategy (owner) only
\* for a symbol it has sized an order for.
run(t, s, now, position, buyTime, sellTime, pending) ==
  \E owner \in (IF stop_prices[s] # None THEN BOOLEAN ELSE {FALSE}) :
    LET pre == buyTime /\ position = 0 /\ ~pending
        rec0 == [IdleTask EXCEPT !.symbol = s, !.now = now,
                                 !.position = position, !.checked = pre,
                                 !.buy_time = buyTime, !.open_order = pending]
    IN  IF pre
        THEN \E chk \in {should_cool_down(cool_down[s], now)} :
               IF chk.ret
               THEN ExitOrSkip(t, s, rec0, chk.cd, sellTime, owner, pending)
               ELSE \E volume \in {MinVolume, MinVolume + 1} :
                      IF volume > MinVolume
                      THEN EntryEngine(t, s, [rec0 EXCEPT !.volume = volume],
                                       chk.cd)
                      ELSE ExitOrSkip(t, s, [rec0 EXCEPT !.volume = volume],
                                      chk.cd, sellTime, owner, pending)
        ELSE ExitOrSkip(t, s, rec0, cool_down[s], sellTime, owner, pending)

\* the caller starts a call of run for any symbol, with any arguments
Run(t) ==
  /\ task[t].pc = "idle"
  /\ \E s \in DOMAIN down_cross, now \in Nows, position \in 0..MaxPosition,
        buyTime \in BOOLEAN, sellTime \in BOOLEAN, pending \in BOOLEAN :
       run(t, s, now, position, buyTime, sellTime, pending)

\* as LoopContinues, with retry >= 0
LoopContinues_Inclusive(retry) == retry >= 0

\* while retry > 0
LoopContinues(retry) == retry > 0

\* as Resume, with the sizing reading the call's own stop_price and not
\* stop_prices[symbol]
Resume_OwnStop(t) ==
  /\ task[t].pc = "yield"
  /\ LET s == task[t].symbol
         r == [task[t] EXCEPT !.retry = @ - 1]
         outs == IF LoopContinues(r.retry)
                 THEN Attempt(r, Some(StopPrice(task[t].close)))
                 ELSE {[rec |-> Finish(r, "no_portfolio_value"), clear |-> FALSE]}
     IN  \E o \in outs :
           Apply(t, s, down_cross[s], IF o.clear THEN FALSE ELSE whipsawed[s],
                 cool_down[s], target_prices[s], stop_prices[s], o.rec)

\* the call resumes from asyncio.sleep(0): retry -= 1, the loop test, and the
\* next attempt or the end of the loop
Resume(t) ==
  /\ task[t].pc = "yield"
  /\ LET s == task[t].symbol
         r == [task[t] EXCEPT !.retry = @ - 1]
         outs == IF LoopContinues(r.retry) THEN Attempt(r, stop_prices[s])
                 ELSE {[rec |-> Finish(r, "no_portfolio_value"), clear |-> FALSE]}
     IN  \E o \in outs :
           Apply(t, s, down_cross[s], IF o.clear THEN FALSE ELSE whipsawed[s],
                 cool_down[s], target_prices[s], stop_prices[s], o.rec)

\* the caller takes the result
Return(t) ==
  /\ task[t].pc = "done"
  /\ task' = [task EXCEPT ![t] = IdleTask]
  /\ UNCHANGED <<down_cross, whipsawed, cool_down, target_prices, stop_prices,
                 latest_cost_basis, latest_scalp_basis>>

Next ==
  \/ \E t \in DOMAIN task : Run(t)
  \/ \E t \in DOMAIN task : Resume(t)
  \/ \E t \in DOMAIN task : Return(t)
  \/ BuyFill
  \/ SellFill

Spec == Init /\ [][Next]_vars

(* ------------------------------------- should_cool_down taken on its own *)
\* the shared store holds any entry for the symbol
CoolStore ==
  /\ \E s \in DOMAIN cool_down, cd \in {None} \cup {Some(tm) : tm \in CoolTimes} :
       cool_down' = [cool_down EXCEPT ![s] = cd]
  /\ task' = [t \in DOMAIN task |-> IdleTask]
  /\ UNCHANGED <<down_cross, whipsawed, target_prices, stop_prices,
                 latest_cost_basis, latest_scalp_basis>>

\* await self.should_cool_down(symbol, now), at most twice between two writes
\* of the store
CoolCheck(t) ==
  /\ task[t].calls < 2
  /\ \E s \in DOMAIN cool_down, now \in CoolTimes :
       \E chk \in {should_cool_down(cool_down[s], now)} :
         /\ cool_down' = [cool_down EXCEPT ![s] = chk.cd]
         /\ task' = [task EXCEPT ![t] =
                       [IdleTask EXCEPT !.pc = "done", !.symbol = s,
                                        !.engine = "cool_down", !.now = now,
                                        !.checked = TRUE,
                                        !.calls = task[t].calls + 1,
                                        !.path = IF chk.ret THEN "suppress"
                                                 ELSE "proceed"]]
  /\ UNCHANGED <<down_cross, whipsawed, target_prices, stop_prices,
                 latest_cost_basis, latest_scalp_basis>>

NextCool ==
  \/ \E t \in DOMAIN task : CoolCheck(t)
  \/ CoolStore

SpecCool == Init /\ [][NextCool]_vars

(* ------------------------------------------ the sell order taken on its own *)
\* lines 355-394 for each rule and position
SellOrder(t) ==
  /\ \E n \in DOMAIN RuleOrder, position \in 1..MaxQtyPosition, close \in Prices :
       task' = [task EXCEPT ![t] =
                  FinishAct([IdleTask EXCEPT !.engine = "exit", !.rules = {n},
                                             !.position = position, !.close = close],
                            RuleOrder[n],
                            SellIntent(RuleOrder[n], position, close))]
  /\ UNCHANGED <<down_cross, whipsawed, cool_down, target_prices, stop_prices,
                 latest_cost_basis, latest_scalp_basis>>

NextQty ==
  \/ \E t \in DOMAIN task : SellOrder(t)
  \/ \E t \in DOMAIN task : Return(t)

SpecQty == Init /\ [][NextQty]_vars

(* ------------------------------- the rounded comparisons taken on their own *)
\* values of macd[-1], macd[-2] and macd_signal[-1] on both sides of 0.1 and of
\* -0.1, and near zero
FineValues ==
  {NaN, <<-1012>>, <<-1004>>, <<-996>>, <<-8>>, <<8>>, <<996>>, <<1004>>, <<1012>>}

\* lines 276-298: round_factor, macd_below_signal and the test
\* round(macd[-1], round_factor) < round(macd[-2], round_factor)
RoundedCompare(t) ==
  /\ task[t].pc = "idle"
  /\ \E m1 \in FineValues, m2 \in FineValues, s1 \in FineValues :
       \E w \in {FineWindow(m1, m2, s1)} :
         task' = [task EXCEPT ![t] =
                    [IdleTask EXCEPT !.pc = "done", !.engine = "exit", !.path = "round",
                                     !.macd = w,
                                     !.round_factor = RoundFactor(w),
                                     !.macd_below_signal = MacdBelowSignal(w),
                                     !.macd_falling = MacdFalling(w)]]
  /\ UNCHANGED <<down_cross, whipsawed, cool_down, target_prices, stop_prices,
                 latest_cost_basis, latest_scalp_basis>>

NextRound ==
  \/ \E t \in DOMAIN task : RoundedCompare(t)
  \/ \E t \in DOMAIN task : Return(t)

SpecRound == Init /\ [][NextRound]_vars

(* ------------------------------------------- evaluation times in order *)
\* the caller passes a time `now` that never goes back: the record of the
\* returned call keeps the time of the last evaluation
ClockRun(t) ==
  /\ task[t].pc = "idle"
  /\ \E s \in DOMAIN down_cross, now \in {n \in Nows : n >= task[t].now},
        position \in 0..MaxPosition,
        buyTime \in BOOLEAN, sellTime \in BOOLEAN, pending \in BOOLEAN :
       run(t, s, now, position, buyTime, sellTime, pending)

ClockReturn(t) ==
  /\ task[t].pc = "done"
  /\ task' = [task EXCEPT ![t] = [IdleTask EXCEPT !.now = task[t].now]]
  /\ UNCHANGED <<down_cross, whipsawed, cool_down, target_prices, stop_prices,
                 latest_cost_basis, latest_scalp_basis>>

NextClock ==
  \/ \E t \in DOMAIN task : ClockRun(t)
  \/ \E t \in DOMAIN task : Resume(t)
  \/ \E t \in DOMAIN task : ClockReturn(t)
  \/ BuyFill
  \/ SellFill

SpecClock == Init /\ [][NextClock]_vars

(* ------------------------------------------ the callbacks taken on their own *)
\* one call of buy_callback(symbol, price, qty), its arguments kept
BuyCallback(t) ==
  \E s \in DOMAIN down_cross, p \in FillPrices :
    /\ buy_callback(s, p)
    /\ task' = [task EXCEPT ![t] =
                  [IdleTask EXCEPT !.engine = "fill", !.path = "buy_callback",
                                   !.symbol = s, !.close = p]]

\* one call of sell_callback(symbol, price, qty), its arguments kept
SellCallback(t) ==
  \E s \in DOMAIN down_cross, p \in FillPrices :
    /\ sell_callback(s, p)
    /\ task' = [task EXCEPT ![t] =
                  [IdleTask EXCEPT !.engine = "fill", !.path = "sell_callback",
                                   !.symbol = s, !.close = p]]

NextFill ==
  \/ \E t \in DOMAIN task : BuyCallback(t)
  \/ \E t \in DOMAIN task : SellCallback(t)

(* ------------------------------------------------ two calls in flight *)
\* the arguments and bars of the calls considered when two are in flight:
\* 31:00 after the open, the buy window open, no position, no pending order,
\* no portfolio value passed in, a trading API to ask for it
ConcNows == {1860}
ConcWindows ==
  { Window(<<-100>>, <<0>>, <<100>>, <<0>>, <<100>>),
    Window(<<100>>, <<0>>, <<-100>>, <<0>>, <<-100>>),
    Window(<<-100>>, <<-200>>, <<-300>>, <<-200>>, <<-300>>) }
ConcRsis == {<<74>>, <<75>>}
ConcPrices == {45, 50}

\* one call of run for symbol s with these arguments and bars, up to its
\* return or its first suspension
ConcRun(t, s) ==
  /\ task[t].pc = "idle"
  /\ \E now \in ConcNows : run(t, s, now, 0, TRUE, FALSE, FALSE)
  /\ task'[t].engine = "entry" =>
       /\ task'[t].macd \in ConcWindows
       /\ task'[t].close \in ConcPrices
       /\ task'[t].path \notin {"anchor_set", "anchor_cleared", "no_signal"} =>
            task'[t].rsi \in ConcRsis
       /\ task'[t].path \notin {"anchor_set", "anchor_cleared", "no_signal",
                                "overbought"} =>
            /\ task'[t].attempts > 0
            /\ task'[t].vwap = task'[t].close

\* a symbol the strategy has traded before: bought at 50 under the anchor 58,
\* sold at 49 after the close fell below 0.99 of the cost
TradedStore(traded) ==
  /\ down_cross = [s \in DOMAIN traded |-> IF traded[s] THEN <<58>> ELSE None]
  /\ whipsawed = [s \in DOMAIN traded |-> traded[s]]
  /\ cool_down = [s \in DOMAIN traded |-> None]
  /\ target_prices =
       [s \in DOMAIN traded |-> IF traded[s] THEN <<TargetPrice(58)>> ELSE None]
  /\ stop_prices =
       [s \in DOMAIN traded |-> IF traded[s] THEN <<StopPrice(50)>> ELSE None]
  /\ latest_cost_basis = [s \in DOMAIN traded |-> IF traded[s] THEN <<50>> ELSE None]
  /\ latest_scalp_basis = [s \in DOMAIN traded |-> IF traded[s] THEN <<49>> ELSE None]

(* two symbols, fresh or traded, and the callbacks alone *)
InitFill ==
  /\ \E traded \in [{"A", "B"} -> BOOLEAN] : TradedStore(traded)
  /\ task = [t \in Tasks |-> IdleTask]

SpecFill == InitFill /\ [][NextFill]_vars

(* two symbols, one evaluator each *)
PairSymbols == {"A", "B"}
PairTasks == {"t1", "t2"}
SymbolOf(t) == IF t = "t1" THEN "A" ELSE "B"

InitPair ==
  /\ \E traded \in [PairSymbols -> BOOLEAN] : TradedStore(traded)
  /\ task = [t \in PairTasks |-> IdleTask]

\* each evaluator calls run for its own symbol
PairRun(t) == ConcRun(t, SymbolOf(t))

NextPair ==
  \/ \E t \in DOMAIN task : PairRun(t)
  \/ \E t \in DOMAIN task : Resume(t)
  \/ \E t \in DOMAIN task : Return(t)

SpecPair == InitPair /\ [][NextPair]_vars

(* one symbol, two evaluators *)
InitSame ==
  /\ \E traded \in [Symbols -> BOOLEAN] : TradedStore(traded)
  /\ task = [t \in PairTasks |-> IdleTask]

\* either evaluator calls run for the symbol, whatever the other is doing
SameRun(t) == \E s \in DOMAIN down_cross : ConcRun(t, s)

NextSame ==
  \/ \E t \in DOMAIN task : SameRun(t)
  \/ \E t \in DOMAIN task : Resume(t)
  \/ \E t \in DOMAIN task : Return(t)

SpecSame == InitSame /\ [][NextSame]_vars

(* ================================================================ claims *)
\* a call of run starts (and runs to its return or first suspension) in this step
RunStep(t) == task[t].pc = "idle" /\ task'[t].pc # "idle"

\* the trend test of lines 127-129 on the coarse window of a call
TrendTest(w) ==
  /\ Gt(w.m1, w.m2) /\ Gt(w.m2, w.m3)
  /\ Gt(w.m1, w.s1) /\ Gt(w.s1, w.s2)
  /\ Gt(w.m2, w.s2)

\* C1: in every exit evaluation the order is that of the lowest-numbered rule
\* that matches (1 stop, 2 target, 3 overbought, 4 bail-out: the whole position
\* at market; 5 scale-out: half the position, at least one share, as a limit
\* order at the close; 6 whipsaw bail: the whole position as a limit order at
\* the close), no order when none matches; when the stop rule and the
\* scale-out rule both match it is the market sell of the whole position.
C1_ExitPriority ==
  \A t \in DOMAIN task :
    LET r == task[t]
    IN  (r.pc = "done" /\ r.engine = "exit") =>
          /\ r.rules = {} => (~r.act /\ r.intent = NoIntent)
          /\ r.rules # {} =>
               LET k == CHOOSE n \in r.rules : \A m \in r.rules : n <= m
               IN  /\ r.act /\ ~r.raised
                   /\ r.intent.side = "sell"
                   /\ k \in 1..4 =>
                        r.intent = [side |-> "sell", qty |-> r.position,
                                    type |-> "market", limit |-> <<>>]
                   /\ k = 5 =>
                        /\ r.intent.type = "limit"
                        /\ r.intent.limit = <<r.close>>
                        /\ r.intent.qty = IF r.position > 1 THEN r.position \div 2 ELSE 1
                   /\ k = 6 =>
                        r.intent = [side |-> "sell", qty |-> r.position,
                                    type |-> "limit", limit |-> <<r.close>>]
          /\ ({1, 5} \subseteq r.rules) =>
               (r.intent.type = "market" /\ r.intent.qty = r.position)

\* an exit evaluation in which the stop rule and the scale-out rule both match
C1_Witness ==
  \E t \in DOMAIN task :
    /\ task[t].pc = "done" /\ task[t].engine = "exit"
    /\ {1, 5} \subseteq task[t].rules
    /\ task[t].intent.type = "market"

\* C2 as claimed: every entry evaluation that sees a downward zero-crossing
\* (latest coarse value negative, previous one non-negative) sets the anchor to
\* the current close and returns no-action.
C2_Original ==
  [][\A t \in DOMAIN task :
       (/\ RunStep(t) /\ task'[t].engine = "entry"
        /\ Lt(task'[t].macd.m1, <<0>>) /\ Le(<<0>>, task'[t].macd.m2))
       => /\ down_cross'[task'[t].symbol] = <<task'[t].close>>
          /\ task'[t].pc = "done" /\ ~task'[t].act]_vars

\* C2 amended: an entry evaluation that sees a downward zero-crossing returns
\* no-action; it sets the anchor to the current close if no anchor is set and
\* leaves a set anchor as it is; no step both sets the anchor and emits a buy.
C2_Amended ==
  [][/\ \A t \in DOMAIN task :
          (/\ RunStep(t) /\ task'[t].engine = "entry"
           /\ Lt(task'[t].macd.m1, <<0>>) /\ Le(<<0>>, task'[t].macd.m2))
          => /\ task'[t].pc = "done" /\ ~task'[t].act /\ ~task'[t].raised
             /\ task'[t].intent = NoIntent
             /\ down_cross'[task'[t].symbol] =
                  IF down_cross[task'[t].symbol] = <<>> THEN <<task'[t].close>>
                  ELSE down_cross[task'[t].symbol]
     /\ \A t \in DOMAIN task :
          (/\ task'[t] # task[t] /\ task'[t].pc # "idle"
           /\ down_cross'[task'[t].symbol] # down_cross[task'[t].symbol]
           /\ down_cross'[task'[t].symbol] # <<>>)
          => task'[t].intent.side # "buy"]_vars

\* a downward zero-crossing has set the anchor to the close of the bar
C2_Witness ==
  \E t \in DOMAIN task :
    /\ task[t].pc = "done" /\ task[t].path = "anchor_set"
    /\ Lt(task[t].macd.m1, <<0>>) /\ Le(<<0>>, task[t].macd.m2)
    /\ down_cross[task[t].symbol] = <<task[t].close>>
    /\ ~task[t].act

\* C3: an entry evaluation that finds the anchor set and the latest coarse
\* value >= 0 clears the anchor and returns no-action; a set anchor changes in
\* no other step (no other path of run, no resumption, no fill callback); a
\* step that emits a buy intent leaves the anchor set and unchanged.
C3_AnchorClearedOnlyByUpCross ==
  [][/\ \A t \in DOMAIN task :
          (/\ RunStep(t) /\ task'[t].engine = "entry"
           /\ down_cross[task'[t].symbol] # <<>>
           /\ Ge(task'[t].macd.m1, <<0>>))
          => /\ down_cross'[task'[t].symbol] = <<>>
             /\ task'[t].pc = "done" /\ ~task'[t].act /\ ~task'[t].raised
     /\ \A s \in DOMAIN down_cross :
          (down_cross[s] # <<>> /\ down_cross'[s] # down_cross[s])
          => \E t \in DOMAIN task :
               /\ RunStep(t) /\ task'[t].symbol = s /\ task'[t].engine = "entry"
               /\ Ge(task'[t].macd.m1, <<0>>)
               /\ down_cross'[s] = <<>>
     /\ \A t \in DOMAIN task :
          (task'[t] # task[t] /\ task'[t].intent.side = "buy")
          => /\ down_cross'[task'[t].symbol] # <<>>
             /\ down_cross'[task'[t].symbol] = down_cross[task'[t].symbol]]_vars

\* the anchor has been cleared by an evaluation whose latest coarse value is 0
C3_Witness ==
  \E t \in DOMAIN task :
    /\ task[t].pc = "done" /\ task[t].path = "anchor_cleared"
    /\ task[t].macd.m1 = <<0>>
    /\ down_cross[task[t].symbol] = <<>>

\* C4: an entry evaluation that confirms the trend (anchor set, trend test
\* true, close below the anchor) and then reads a bounded-ratio value >= 75
\* returns no-action, sets cooldownUntil to the minute of now plus 5 minutes
\* and writes neither the target nor the stop price.  (rsi is the value read at
\* the risk gate of line 142.)
C4_OverboughtAbort ==
  [][\A t \in DOMAIN task :
       (/\ RunStep(t) /\ task'[t].engine = "entry"
        /\ down_cross[task'[t].symbol] # <<>>
        /\ TrendTest(task'[t].macd)
        /\ task'[t].close < down_cross[task'[t].symbol][1]
        /\ Ge(task'[t].rsi, <<75>>))
       => /\ task'[t].pc = "done" /\ ~task'[t].act /\ ~task'[t].raised
          /\ task'[t].intent = NoIntent
          /\ cool_down'[task'[t].symbol] =
               <<(task'[t].now - (task'[t].now % 60)) + 300>>
          /\ target_prices' = target_prices
          /\ stop_prices' = stop_prices]_vars

\* an overbought abort at 30:30 after the open has set the cooldown to 35:00
C4_Witness ==
  \E t \in DOMAIN task :
    /\ task[t].pc = "done" /\ task[t].path = "overbought"
    /\ Ge(task[t].rsi, <<75>>)
    /\ task[t].now = 1830
    /\ cool_down[task[t].symbol] = <<2100>>

\* C5: a call of should_cool_down returns True and leaves the entry unchanged
\* when the entry is set and >= now truncated to the minute; otherwise it
\* returns False and clears the entry; a second call with the same now after a
\* call that returned False returns False too.
C5_CooldownOneShot ==
  [][\A t \in DOMAIN task :
       (task'[t].engine = "cool_down" /\ task'[t].calls = task[t].calls + 1)
       => LET r == task'[t]
              cd == cool_down[r.symbol]
              active == cd # <<>> /\ cd[1] >= r.now - (r.now % 60)
          IN  /\ active => (r.path = "suppress" /\ cool_down' = cool_down)
              /\ ~active => (r.path = "proceed" /\ cool_down'[r.symbol] = <<>>)
              /\ (/\ task[t].engine = "cool_down" /\ task[t].path = "proceed"
                  /\ task[t].now = r.now)
                 => r.path = "proceed"]_vars

\* a second call with the same now has not suppressed and the entry is clear
C5_Witness ==
  \E t \in DOMAIN task :
    /\ task[t].engine = "cool_down" /\ task[t].calls = 2
    /\ task[t].path = "proceed"
    /\ cool_down[task[t].symbol] = <<>>

\* C6 as claimed: an evaluation whose indicator values are all indeterminate
\* (history shorter than the look-back) returns no-action, in the entry engine
\* and in the exit engine.
C6_NoActionWhenIndeterminate ==
  \A t \in DOMAIN task :
    (/\ task[t].pc = "done" /\ task[t].engine \in {"entry", "exit"}
     /\ task[t].short)
    => ~task[t].act

\* C7: get_account() is attempted at most 3 times in one call; a suspended call
\* has failed every attempt so far by a connectivity failure, has yielded once
\* per failure, has attempts left and can resume; every attempt after the first
\* follows a yield; a call whose last attempt failed by connectivity has made 3
\* attempts and ends with no-action, not with an error.
C7_BoundedRetry ==
  \A t \in DOMAIN task :
    LET r == task[t]
    IN  /\ r.attempts <= 3 /\ r.yields <= 3
        /\ r.pc = "yield" =>
             /\ r.yields = r.attempts
             /\ r.retry = 4 - r.attempts /\ r.retry >= 1
             /\ ENABLED Resume(t)
        /\ (r.pc = "done" /\ r.attempts > 0) =>
             /\ r.yields \in {r.attempts - 1, r.attempts}
             /\ r.yields = r.attempts =>
                  /\ r.attempts = 3
                  /\ ~r.act /\ ~r.raised /\ r.intent = NoIntent
             /\ (r.act \/ r.raised) => r.yields = r.attempts - 1

\* three connectivity failures have ended a call with no-action
C7_Witness ==
  \E t \in DOMAIN task :
    /\ task[t].pc = "done" /\ task[t].attempts = 3 /\ task[t].yields = 3
    /\ ~task[t].act /\ ~task[t].raised

\* C8: a buy attempt that passed the overbought gate with no portfolio value
\* and no gateway ends in an error raised to the caller: no result, no attempt
\* to fetch, no yield.
C8_ConfigErrorIsFatal ==
  \A t \in DOMAIN task :
    LET r == task[t]
    IN  (/\ r.pc # "idle" /\ r.engine = "entry" /\ Lt(r.rsi, <<75>>)
         /\ r.portfolio_value = <<>> /\ ~r.trading_api)
        => /\ r.pc = "done" /\ r.raised /\ ~r.act
           /\ r.attempts = 0 /\ r.yields = 0

\* a call has raised the configuration error
C8_Witness ==
  \E t \in DOMAIN task :
    /\ task[t].pc = "done" /\ task[t].raised
    /\ task[t].portfolio_value = <<>> /\ ~task[t].trading_api
    /\ Lt(task[t].rsi, <<75>>)

\* C9: a call that sizes an order with portfolio value pv computes
\* q = floor(pv * 0.01 / (close - stop)), takes 1 when q < 1, subtracts the
\* position, and emits a buy intent of that quantity exactly when it is > 0;
\* no other call emits a buy intent.  (stop is in hundredths.)
C9_BuyQuantity ==
  \A t \in DOMAIN task :
    LET r == task[t]
    IN  /\ (r.pc = "done" /\ r.path \in {"buy", "no_shares"}) =>
             LET pv == r.portfolio_value[1]
                 den == 100 * r.close - stop_prices[r.symbol][1]
                 q == pv \div den
                 net == (IF q < 1 THEN 1 ELSE q) - r.position
             IN  /\ den > 0
                 /\ q * den <= pv /\ pv < (q + 1) * den
                 /\ (r.path = "buy") <=> (net > 0)
                 /\ r.path = "buy" =>
                      (r.act /\ r.intent.side = "buy" /\ r.intent.qty = net)
                 /\ r.path = "no_shares" => ~r.act
        /\ r.intent.side = "buy" => (r.path = "buy" /\ r.intent.qty > 0)

\* portfolio value 100000, close 50, stop 48: 500 shares
C9_Witness ==
  \E t \in DOMAIN task :
    /\ task[t].pc = "done" /\ task[t].path = "buy"
    /\ task[t].portfolio_value = <<100000>> /\ task[t].close = 50
    /\ stop_prices[task[t].symbol] = <<4800>>
    /\ task[t].intent.qty = 500

\* C10: every sell order has 1 <= quantity <= position; the scale-out quantity
\* is floor(position / 2), and 1 when that is 0.
C10_SellQuantity ==
  \A t \in DOMAIN task :
    LET r == task[t]
    IN  (r.pc = "done" /\ r.intent.side = "sell") =>
          /\ 1 <= r.intent.qty /\ r.intent.qty <= r.position
          /\ r.path = "scale_out" =>
               \E q \in 0..r.position :
                 /\ 2 * q <= r.position /\ r.position < 2 * q + 2
                 /\ r.intent.qty = IF q < 1 THEN 1 ELSE q
          /\ r.path # "scale_out" => r.intent.qty = r.position

\* position 5 scales out 2 shares
C10_Witness ==
  \E t \in DOMAIN task :
    /\ task[t].pc = "done" /\ task[t].path = "scale_out"
    /\ task[t].position = 5 /\ task[t].intent.qty = 2

\* C11: with one evaluator per symbol, a step of the evaluation of a symbol
\* (start, resumption after the yield, return) changes no entry of another
\* symbol (anchor, whipsaw flag, cooldown, target, stop, cost and scalp basis)
\* and no other call; a suspended call finds the stop it stored, and a call
\* that sizes an order, at its start or after any number of yields, gets the
\* result its own arguments give: stop = 0.96 x its close, target = 1.12 x the
\* anchor of its symbol, quantity floor(pv x 0.01 / (close - stop)), at least 1.
C11_DistinctSymbolsIndependent ==
  [][\A t \in DOMAIN task :
       /\ task[t].pc = "yield" =>
            stop_prices[task[t].symbol] = <<96 * task[t].close>>
       /\ task'[t] # task[t] =>
            LET r == task'[t]
                s == IF r.pc = "idle" THEN task[t].symbol ELSE r.symbol
            IN  /\ \A u \in DOMAIN task \ {t} : task'[u] = task[u]
                /\ \A x \in DOMAIN down_cross \ {s} :
                     /\ down_cross'[x] = down_cross[x]
                     /\ whipsawed'[x] = whipsawed[x]
                     /\ cool_down'[x] = cool_down[x]
                     /\ target_prices'[x] = target_prices[x]
                     /\ stop_prices'[x] = stop_prices[x]
                     /\ latest_cost_basis'[x] = latest_cost_basis[x]
                     /\ latest_scalp_basis'[x] = latest_scalp_basis[x]
                /\ (r.pc = "done" /\ r.path \in {"buy", "no_shares"}) =>
                     LET q == r.portfolio_value[1] \div (100 * r.close - 96 * r.close)
                         net == (IF q < 1 THEN 1 ELSE q) - r.position
                     IN  /\ stop_prices'[s] = <<96 * r.close>>
                         /\ target_prices'[s] = <<112 * down_cross'[s][1]>>
                         /\ (r.path = "buy") <=> (net > 0)
                         /\ r.path = "buy" =>
                              (r.intent.qty = net /\ ~whipsawed'[s])]_vars

\* the evaluations of two symbols are suspended at the yield at once, each
\* with its own stop stored
C11_Witness ==
  \E t \in DOMAIN task, u \in DOMAIN task :
    /\ task[t].pc = "yield" /\ task[u].pc = "yield"
    /\ task[t].symbol # task[u].symbol
    /\ task[t].close = 45 /\ task[u].close = 50
    /\ stop_prices[task[t].symbol] = <<4320>>
    /\ stop_prices[task[u].symbol] = <<4800>>

\* C12: two evaluations of one symbol may be in flight at once.  A call that
\* suspends has stored stop = 0.96 x its close; while it is suspended the
\* stored stop changes only in a step in which another call for the same
\* symbol starts; the resumed call writes no stop and sizes its order with the
\* stop stored at that moment, its own or not.
C12_StopReadAtSizing ==
  [][\A t \in DOMAIN task :
       /\ (task[t].pc = "idle" /\ task'[t].pc = "yield") =>
            stop_prices'[task'[t].symbol] = <<96 * task'[t].close>>
       /\ (/\ task[t].pc = "yield" /\ task'[t] = task[t]
           /\ stop_prices'[task[t].symbol] # stop_prices[task[t].symbol]) =>
            \E u \in DOMAIN task \ {t} :
              /\ task[u].pc = "idle" /\ task'[u].pc # "idle"
              /\ task'[u].symbol = task[t].symbol
       /\ (task[t].pc = "yield" /\ task'[t] # task[t]) =>
            LET r == task'[t]
                stored == stop_prices[task[t].symbol][1]
            IN  /\ stop_prices' = stop_prices
                /\ r.path \in {"buy", "no_shares"} =>
                     LET den == 100 * r.close - stored
                         pv == r.portfolio_value[1]
                         q == IF den > 0 THEN pv \div den
                              ELSE (0 - pv) \div (0 - den)
                         net == (IF q = 0 THEN 1 ELSE q) - r.position
                     IN  /\ den # 0
                         /\ (r.path = "buy") <=> (net > 0)
                         /\ r.path = "buy" => r.intent.qty = net]_vars

\* a call with close 50 has sized its order with the stop 43.20 that a second
\* call, with close 45, stored while the first was suspended: 147 shares and
\* not 500
C12_Witness ==
  \E t \in DOMAIN task :
    /\ task[t].pc = "done" /\ task[t].path = "buy"
    /\ task[t].close = 50 /\ task[t].portfolio_value = <<100000>>
    /\ stop_prices[task[t].symbol] = <<4320>>
    /\ task[t].intent.qty = 147

\* an entry evaluation of a symbol whose anchor is set and stays set: it has
\* passed the two zero-crossing tests (latest coarse value negative)
AnchorStays(t) ==
  /\ RunStep(t) /\ task'[t].engine = "entry"
  /\ down_cross[task'[t].symbol] # <<>>
  /\ Lt(task'[t].macd.m1, <<0>>)

\* the evaluation went on to the risk gate
TrendConfirmed(r) == r.path \notin {"no_signal", "anchor_set", "anchor_cleared"}

\* C13 as claimed: while the anchor is set the trend is confirmed exactly when
\* the last three coarse readings are non-decreasing, the latest reading is
\* above the latest signal value, the latest signal value above the previous
\* one, the previous reading above the previous signal value, and the close
\* below the anchor; otherwise the evaluation ends with no-action and the
\* anchor, whipsaw flag, target and stop unchanged.
C13_Original ==
  [][\A t \in DOMAIN task :
       AnchorStays(t) =>
         LET r == task'[t]
             w == r.macd
             s == r.symbol
         IN  /\ TrendConfirmed(r) <=>
                  /\ Ge(w.m1, w.m2) /\ Ge(w.m2, w.m3)
                  /\ Gt(w.m1, w.s1) /\ Gt(w.s1, w.s2)
                  /\ Gt(w.m2, w.s2)
                  /\ r.close < down_cross[s][1]
             /\ ~TrendConfirmed(r) =>
                  /\ r.pc = "done" /\ ~r.act /\ ~r.raised /\ r.intent = NoIntent
                  /\ down_cross' = down_cross /\ whipsawed' = whipsawed
                  /\ target_prices' = target_prices
                  /\ stop_prices' = stop_prices]_vars

\* C13 amended: while the anchor is set and the latest coarse reading is
\* negative, the trend is confirmed exactly when the last three coarse readings
\* are strictly increasing, the latest reading is above the latest signal
\* value, the latest signal value above the previous one, the previous reading
\* above the previous signal value, and the close below the anchor; otherwise
\* the evaluation ends with no-action, the anchor, whipsaw flag, target, stop
\* and both bases unchanged and the cooldown as the cooldown check left it.
C13_Amended ==
  [][\A t \in DOMAIN task :
       AnchorStays(t) =>
         LET r == task'[t]
             w == r.macd
             s == r.symbol
         IN  /\ TrendConfirmed(r) <=>
                  /\ Gt(w.m1, w.m2) /\ Gt(w.m2, w.m3)
                  /\ Gt(w.m1, w.s1) /\ Gt(w.s1, w.s2)
                  /\ Gt(w.m2, w.s2)
                  /\ r.close < down_cross[s][1]
             /\ ~TrendConfirmed(r) =>
                  /\ r.pc = "done" /\ r.path = "no_signal"
                  /\ ~r.act /\ ~r.raised /\ r.intent = NoIntent
                  /\ down_cross' = down_cross /\ whipsawed' = whipsawed
                  /\ target_prices' = target_prices
                  /\ stop_prices' = stop_prices
                  /\ latest_cost_basis' = latest_cost_basis
                  /\ latest_scalp_basis' = latest_scalp_basis
                  /\ cool_down'[s] = <<>>]_vars

\* a strictly rising window under the anchor has sent an evaluation to the risk
\* gate and on to a buy
C13_Witness ==
  \E t \in DOMAIN task :
    /\ task[t].pc = "done" /\ task[t].path = "buy"
    /\ task[t].macd = Window(<<-100>>, <<-200>>, <<-300>>, <<-200>>, <<-300>>)
    /\ down_cross[task[t].symbol] # <<>>
    /\ task[t].close < down_cross[task[t].symbol][1]

\* C14: an exit evaluation leaves the whipsawed flag true when it was true or
\* close < 0.99 x cost basis, whether or not it sells, and false otherwise; the
\* flag turns true in no other step; a set flag turns false only in a step that
\* emits a buy intent for the symbol (not in another evaluation, a resumption
\* without a buy, a return or a fill callback), and every such step leaves it
\* false.
C14_WhipsawSticky ==
  [][/\ \A t \in DOMAIN task :
          /\ (RunStep(t) /\ task'[t].engine = "exit") =>
               LET s == task'[t].symbol
               IN  whipsawed'[s] =
                     (whipsawed[s]
                        \/ 100 * task'[t].close < 99 * latest_cost_basis[s][1])
          /\ (task'[t] # task[t] /\ task'[t].intent.side = "buy") =>
               ~whipsawed'[task'[t].symbol]
     /\ \A s \in DOMAIN whipsawed :
          /\ (~whipsawed[s] /\ whipsawed'[s]) =>
               \E t \in DOMAIN task :
                 /\ RunStep(t) /\ task'[t].engine = "exit" /\ task'[t].symbol = s
                 /\ 100 * task'[t].close < 99 * latest_cost_basis[s][1]
          /\ (whipsawed[s] /\ ~whipsawed'[s]) =>
               \E t \in DOMAIN task :
                 /\ task'[t] # task[t] /\ task'[t].symbol = s
                 /\ task'[t].act /\ task'[t].intent.side = "buy"]_vars

\* an exit evaluation with the close below 0.99 of the cost basis has set the
\* flag and sold nothing
C14_Witness ==
  \E t \in DOMAIN task :
    /\ task[t].pc = "done" /\ task[t].engine = "exit" /\ task[t].path = "no_sell"
    /\ 100 * task[t].close < 99 * latest_cost_basis[task[t].symbol][1]
    /\ whipsawed[task[t].symbol]

\* C15 as claimed: an exit evaluation sets the cooldown exactly when overbought
\* is the selected rule (oscillator >= 79, >= 85 in the first 30 minutes, and
\* neither the stop nor the target rule matches); it then sells the whole
\* position at market and the cooldown is now + 5 minutes; otherwise the
\* cooldown is unchanged.
C15_Original ==
  [][\A t \in DOMAIN task :
       (RunStep(t) /\ task'[t].engine = "exit") =>
         LET r == task'[t]
             s == r.symbol
             over == Ge(r.rsi, <<IF r.now \div 60 < 30 THEN 85 ELSE 79>>)
             stop == 100 * r.close <= stop_prices[s][1]
             target == 2 \in r.rules
         IN  /\ (r.path = "rsi_max") <=> (over /\ ~stop /\ ~target)
             /\ r.path = "rsi_max" =>
                  /\ r.act /\ r.intent = [side |-> "sell", qty |-> r.position,
                                          type |-> "market", limit |-> <<>>]
                  /\ cool_down'[s] = <<r.now + 300>>
             /\ r.path # "rsi_max" => cool_down'[s] = cool_down[s]]_vars

\* C15 amended: as claimed, with the cooldown set to now truncated to the
\* minute + 5 minutes.
C15_Amended ==
  [][\A t \in DOMAIN task :
       (RunStep(t) /\ task'[t].engine = "exit") =>
         LET r == task'[t]
             s == r.symbol
             over == Ge(r.rsi, <<IF r.now \div 60 < 30 THEN 85 ELSE 79>>)
             stop == 100 * r.close <= stop_prices[s][1]
             target == 2 \in r.rules
         IN  /\ (r.path = "rsi_max") <=> (over /\ ~stop /\ ~target)
             /\ r.path = "rsi_max" =>
                  /\ r.act /\ r.intent = [side |-> "sell", qty |-> r.position,
                                          type |-> "market", limit |-> <<>>]
                  /\ cool_down'[s] = <<(r.now - (r.now % 60)) + 300>>
             /\ r.path # "rsi_max" => cool_down' = cool_down]_vars

\* the overbought rule has sold the position at 30:30 after the open and set
\* the cooldown to 35:00
C15_Witness ==
  \E t \in DOMAIN task :
    /\ task[t].pc = "done" /\ task[t].engine = "exit" /\ task[t].path = "rsi_max"
    /\ task[t].rsi = <<79>> /\ task[t].now = 1830
    /\ task[t].intent.type = "market" /\ task[t].intent.qty = task[t].position
    /\ cool_down[task[t].symbol] = <<2100>>

\* the magnitude of an integer
Abs(x) == IF x < 0 THEN 0 - x ELSE x

\* C16 as claimed: the comparison precision of the exit engine is 2 decimal
\* places when the oscillator or its signal is >= 0.1 in absolute value and 3
\* otherwise, for negative values as for positive ones; macdBelowSignal is
\* round(oscillator) < round(signal) and 'falling' is round(latest) <
\* round(previous) at that precision.
C16_PrecisionByMagnitude ==
  \A t \in DOMAIN task :
    LET r == task[t]
        w == r.macd
    IN  (r.pc = "done" /\ r.path = "round") =>
          LET big(v) == v # <<>> /\ Abs(v[1]) >= 1000
              f == IF big(w.m1) \/ big(w.s1) THEN 2 ELSE 3
          IN  /\ r.round_factor = f
              /\ r.macd_below_signal = Lt(PyRound(w.m1, f), PyRound(w.s1, f))
              /\ r.macd_falling = Lt(PyRound(w.m1, f), PyRound(w.m2, f))

\* C17: a call of buy_callback(symbol, price) leaves the scalp basis and the
\* cost basis of the symbol at price; a call of sell_callback(symbol, price)
\* leaves the scalp basis at price and the cost basis as it was; both leave the
\* bases of every other symbol and every anchor, whipsaw flag, cooldown, target
\* and stop unchanged.  So after any sequence of calls the scalp basis is the
\* price of the last fill and the cost basis the price of the last buy fill.
C17_FillCallbacks ==
  [][\A t \in DOMAIN task :
       task'[t].engine = "fill" =>
         LET r == task'[t]
         IN  /\ latest_scalp_basis' =
                  [latest_scalp_basis EXCEPT ![r.symbol] = <<r.close>>]
             /\ r.path = "buy_callback" =>
                  latest_cost_basis' =
                    [latest_cost_basis EXCEPT ![r.symbol] = <<r.close>>]
             /\ r.path = "sell_callback" => latest_cost_basis' = latest_cost_basis
             /\ down_cross' = down_cross /\ whipsawed' = whipsawed
             /\ cool_down' = cool_down
             /\ target_prices' = target_prices /\ stop_prices' = stop_prices]_vars

\* a symbol never traded before has been bought at 50 and then sold at 49: the
\* cost basis is 50, the scalp basis 49
C17_Witness ==
  \E t \in DOMAIN task :
    /\ task[t].engine = "fill" /\ task[t].path = "sell_callback"
    /\ task[t].close = 49
    /\ down_cross[task[t].symbol] = <<>>
    /\ latest_scalp_basis[task[t].symbol] = <<49>>
    /\ latest_cost_basis[task[t].symbol] = <<50>>

\* C18: the cooldown entry of a symbol is cleared only in an evaluation of that
\* symbol with the buy window open, position 0 and no pending order; such an
\* evaluation that finds the entry expired and the volume <= 500 clears it and
\* returns no-action; an evaluation with the window closed, a position held or
\* an order pending leaves a set entry set; an evaluation with an order pending
\* returns no-action and changes no anchor, whipsaw flag, cooldown, target,
\* stop or basis.
C18_GatedCooldownCheck ==
  [][/\ \A s \in DOMAIN cool_down :
          (cool_down[s] # <<>> /\ cool_down'[s] = <<>>) =>
            \E t \in DOMAIN task :
              /\ RunStep(t) /\ task'[t].symbol = s
              /\ task'[t].buy_time /\ task'[t].position = 0
              /\ ~task'[t].open_order
     /\ \A t \in DOMAIN task :
          RunStep(t) =>
            LET r == task'[t]
                s == r.symbol
                gate == r.buy_time /\ r.position = 0 /\ ~r.open_order
                expired == /\ cool_down[s] # <<>>
                           /\ cool_down[s][1] < r.now - (r.now % 60)
            IN  /\ (gate /\ expired /\ r.volume = 500) =>
                     /\ cool_down'[s] = <<>>
                     /\ r.pc = "done" /\ ~r.act /\ ~r.raised
                /\ (~gate /\ cool_down[s] # <<>>) => cool_down'[s] # <<>>
                /\ r.open_order =>
                     /\ r.pc = "done" /\ ~r.act /\ ~r.raised
                     /\ r.intent = NoIntent
                     /\ UNCHANGED <<down_cross, whipsawed, cool_down, target_prices,
                                    stop_prices, latest_cost_basis,
                                    latest_scalp_basis>>]_vars

\* an evaluation at 31:00 with an order pending has left in place a cooldown
\* entry that ended at 30:00
C18_Witness ==
  \E t \in DOMAIN task :
    /\ task[t].pc = "done" /\ task[t].open_order
    /\ task[t].buy_time /\ task[t].position = 0
    /\ task[t].now = 1860
    /\ cool_down[task[t].symbol] = <<1800>>

\* C19: in every step that emits a buy intent the position is 0, the anchor was
\* set before the step and is left as it was, the latest coarse oscillator
\* value is negative, and the stored prices satisfy stop < close < anchor <
\* target: the sizing denominator close - stop is positive and neither the stop
\* rule (close <= stop) nor the target rule (close >= target) matches at the
\* entry price.  (stop and target are in hundredths.)
C19_BuyPriceOrder ==
  [][\A t \in DOMAIN task :
       (task'[t] # task[t] /\ task'[t].intent.side = "buy") =>
         LET r == task'[t]
             s == r.symbol
         IN  /\ r.act /\ r.position = 0
             /\ down_cross[s] # <<>> /\ down_cross'[s] = down_cross[s]
             /\ Lt(r.macd.m1, <<0>>)
             /\ r.close > 0 =>
                  /\ stop_prices'[s][1] < 100 * r.close
                  /\ r.close < down_cross'[s][1]
                  /\ 100 * down_cross'[s][1] < target_prices'[s][1]
                  /\ 100 * r.close - stop_prices'[s][1] > 0
                  /\ ~(100 * r.close <= stop_prices'[s][1])
                  /\ ~(100 * r.close >= target_prices'[s][1])]_vars

\* a buy at the close 45 under the anchor 50: stop 43.20, target 56.00
C19_Witness ==
  \E t \in DOMAIN task :
    /\ task[t].pc = "done" /\ task[t].intent.side = "buy"
    /\ task[t].close = 45 /\ task[t].position = 0
    /\ down_cross[task[t].symbol] = <<50>>
    /\ stop_prices[task[t].symbol] = <<4320>>
    /\ target_prices[task[t].symbol] = <<5600>>

\* C20: with evaluation times that never go back, a cooldown entry is written
\* as the minute of the evaluation + 5 minutes; a set entry is replaced only by
\* a later one or cleared by an evaluation at a later minute than the entry; an
\* evaluation that finds an entry not before its own minute does not enter the
\* entry engine, does not suspend, emits no buy intent and leaves the anchor
\* unchanged; every step that emits a buy intent or changes the anchor belongs
\* to an evaluation at a minute after the entry it found, if it found one.
C20_CooldownHolds ==
  [][/\ \A s \in DOMAIN cool_down :
          (cool_down'[s] # cool_down[s]) =>
            \E t \in DOMAIN task :
              LET r == task'[t]
                  minute == r.now - (r.now % 60)
              IN  /\ RunStep(t) /\ r.symbol = s
                  /\ cool_down'[s] # <<>> =>
                       /\ cool_down'[s] = <<minute + 300>>
                       /\ cool_down[s] # <<>> => cool_down[s][1] <= cool_down'[s][1]
                  /\ cool_down'[s] = <<>> => cool_down[s][1] < minute
     /\ \A t \in DOMAIN task :
          LET r == task'[t]
              s == r.symbol
              minute == r.now - (r.now % 60)
          IN  /\ (RunStep(t) /\ cool_down[s] # <<>> /\ minute <= cool_down[s][1]) =>
                   /\ r.engine # "entry" /\ r.pc = "done"
                   /\ r.intent.side # "buy"
                   /\ down_cross' = down_cross
                   /\ cool_down'[s] # <<>> /\ cool_down'[s][1] >= cool_down[s][1]
              /\ (/\ task'[t] # task[t] /\ r.pc # "idle"
                  /\ (r.intent.side = "buy" \/ down_cross'[s] # down_cross[s])) =>
                   (cool_down[s] = <<>> \/ cool_down[s][1] < minute)]_vars

\* an evaluation at 30:30 with the buy window open, no position and no pending
\* order has been suppressed by the cooldown an evaluation at minute 25 set
C20_Witness ==
  \E t \in DOMAIN task :
    /\ task[t].pc = "done" /\ task[t].path = "skip"
    /\ task[t].buy_time /\ task[t].position = 0 /\ ~task[t].open_order
    /\ task[t].now = 1830
    /\ cool_down[task[t].symbol] = <<1800>>

====
